---------------------------- MODULE Spec2Model ----------------------------
(* Log-output routing and rotation: service/telemetry (newLogger,          *)
(* setRotatinURL, getRotationSinkFactory) and config/configrotate          *)
(* (Config.NewWriter).                                                     *)
(*                                                                         *)
(* Go strings are modelled as sequences of one-character strings, so that  *)
(* url.Parse, url.QueryEscape, url.Values.Get and filepath.IsAbs are       *)
(* computed character by character as the standard library computes them.  *)
EXTENDS Integers, Sequences, FiniteSets, TLC

VARIABLES
    GOOS,        \* runtime.GOOS of the build
    registry,    \* zap's process-wide sink registry: scheme -> captured *configrotate.Config
    inst,        \* one record per concurrent newLogger call
    call,        \* a direct call of setRotatinURL and of the sink factory on its result
    wr,          \* a direct call of Config.NewWriter
    fs,          \* files existing on the filesystem
    fsOps        \* filesystem calls performed so far

vars == <<GOOS, registry, inst, call, wr, fs, fsOps>>

Nil == "nil"

-----------------------------------------------------------------------------
(* Characters *)

Lower == {"a","b","c","d","e","f","g","h","i","j","k","l","m",
          "n","o","p","q","r","s","t","u","v","w","x","y","z"}
Upper == {"A","B","C","D","E","F"}
Digits == {"0","1","2","3","4","5","6","7","8","9"}

IsLetter(c) == c \in Lower \cup Upper
IsAlnum(c) == IsLetter(c) \/ c \in Digits
IsHex(c) == c \in Digits \cup {"a","b","c","d","e","f"} \cup Upper

\* strings.ToLower on the letters of the alphabet
LowerOf(c) ==
    CASE c = "A" -> "a" [] c = "B" -> "b" [] c = "C" -> "c"
      [] c = "D" -> "d" [] c = "E" -> "e" [] c = "F" -> "f"
      [] OTHER -> c

ToLower(s) == [k \in 1..Len(s) |-> LowerOf(s[k])]

\* the two upper-case hex digits Go's escape writes for a byte
HexCode(c) ==
    CASE c = " " -> <<"2","0">> [] c = "#" -> <<"2","3">> [] c = "%" -> <<"2","5">>
      [] c = "&" -> <<"2","6">> [] c = "+" -> <<"2","B">> [] c = "/" -> <<"2","F">>
      [] c = ":" -> <<"3","A">> [] c = "=" -> <<"3","D">> [] c = "?" -> <<"3","F">>
      [] c = "@" -> <<"4","0">> [] c = "\\" -> <<"5","C">>
      [] OTHER -> <<"0","0">>

Escaped == {" ", "#", "%", "&", "+", "/", ":", "=", "?", "@", "\\"}

OtherByte == "<byte>"

\* the byte two hex digits stand for (unhex(h1)<<4 | unhex(h2))
ByteOf(h1, h2) ==
    LET hh == <<(IF h1 \in Lower THEN CHOOSE u \in Upper : LowerOf(u) = h1 ELSE h1),
                (IF h2 \in Lower THEN CHOOSE u \in Upper : LowerOf(u) = h2 ELSE h2)>>
    IN IF \E c \in Escaped : HexCode(c) = hh
       THEN CHOOSE c \in Escaped : HexCode(c) = hh
       ELSE OtherByte

-----------------------------------------------------------------------------
(* package strings *)

HasPrefix(s, pre) == Len(s) >= Len(pre) /\ SubSeq(s, 1, Len(pre)) = pre

Contains(s, c) == \E k \in 1..Len(s) : s[k] = c

\* strings.Index: first position of c, 0 when absent
Index(s, c) == IF Contains(s, c) THEN CHOOSE k \in 1..Len(s) : s[k] = c /\ \A j \in 1..(k-1) : s[j] # c ELSE 0

\* strings.LastIndex: last position of c, 0 when absent
LastIndex(s, c) == IF Contains(s, c) THEN CHOOSE k \in 1..Len(s) : s[k] = c /\ \A j \in (k+1)..Len(s) : s[j] # c ELSE 0

Count(s, c) == Cardinality({k \in 1..Len(s) : s[k] = c})

\* strings.Cut: before, after, found
Cut(s, c) ==
    LET k == Index(s, c)
    IN IF k = 0 THEN [before |-> s, after |-> <<>>, found |-> FALSE]
       ELSE [before |-> SubSeq(s, 1, k-1), after |-> SubSeq(s, k+1, Len(s)), found |-> TRUE]


-----------------------------------------------------------------------------
(* package net/url.  An operator that needs an intermediate result more than  *)
(* once takes it as a parameter of a helper, the way the Go code holds it in  *)
(* a local variable.                                                          *)

UnescapeFail == [ok |-> FALSE, s |-> <<>>]

\* shouldEscape(c, encodeHost): the characters a host may not hold unescaped
ShouldEscapeHost(c) ==
    ~ (IsAlnum(c) \/ c \in {"-", "_", ".", "~", "!", "$", "&", "'", "(", ")", "*",
                            "+", ",", ";", "=", ":", "[", "]", "<", ">", "\""})

\* unescape(s, mode) from position i on, acc being the bytes decoded so far;
\* mode is "path", "fragment", "host" or "query"
RECURSIVE unescapeFrom(_, _, _, _)
unescapeFrom(s, i, mode, acc) ==
    IF i > Len(s) THEN [ok |-> TRUE, s |-> acc]
    ELSE IF s[i] = "%" THEN
        IF i + 2 > Len(s) \/ ~IsHex(s[i+1]) \/ ~IsHex(s[i+2]) THEN UnescapeFail
        ELSE IF mode = "host" /\ s[i+1] \in {"0","1","2","3","4","5","6","7"}
                /\ <<s[i+1], s[i+2]>> # <<"2","5">> THEN UnescapeFail
        ELSE unescapeFrom(s, i + 3, mode, Append(acc, ByteOf(s[i+1], s[i+2])))
    ELSE IF mode = "host" /\ ShouldEscapeHost(s[i]) THEN UnescapeFail
    ELSE unescapeFrom(s, i + 1, mode,
                      Append(acc, IF s[i] = "+" /\ mode = "query" THEN " " ELSE s[i]))

unescape(s, mode) == unescapeFrom(s, 1, mode, <<>>)

\* shouldEscape(c, encodeQueryComponent)
ShouldEscapeQuery(c) == ~ (IsAlnum(c) \/ c \in {"-", "_", ".", "~"})

\* what escape(s, encodeQueryComponent) writes for one byte
EscapeByte(c) ==
    IF c = " " THEN <<"+">>
    ELSE IF ShouldEscapeQuery(c) THEN <<"%">> \o HexCode(c)
    ELSE <<c>>

\* url.QueryEscape
RECURSIVE QueryEscape(_)
QueryEscape(s) == IF s = <<>> THEN <<>> ELSE EscapeByte(Head(s)) \o QueryEscape(Tail(s))

\* getScheme(rawURL) from position i on
RECURSIVE getSchemeFrom(_, _)
getSchemeFrom(s, i) ==
    IF i > Len(s) THEN [scheme |-> <<>>, rest |-> s, err |-> FALSE]
    ELSE IF IsLetter(s[i]) \/ (i > 1 /\ s[i] \in Digits \cup {"+", "-", "."})
         THEN getSchemeFrom(s, i + 1)
    ELSE IF s[i] = ":" THEN
        IF i = 1 THEN [scheme |-> <<>>, rest |-> <<>>, err |-> TRUE]
        ELSE [scheme |-> SubSeq(s, 1, i - 1), rest |-> SubSeq(s, i + 1, Len(s)), err |-> FALSE]
    ELSE [scheme |-> <<>>, rest |-> s, err |-> FALSE]

getScheme(s) == getSchemeFrom(s, 1)

\* validOptionalPort: "" or ":" followed by digits
validOptionalPort(port) ==
    port = <<>> \/ (port[1] = ":" /\ \A k \in 2..Len(port) : port[k] \in Digits)

validUserinfo(s) ==
    \A k \in 1..Len(s) :
        IsAlnum(s[k]) \/ s[k] \in {"-", ".", "_", ":", "~", "!", "$", "&", "'", "(", ")",
                                   "*", "+", ",", ";", "=", "%", "@"}

\* parseHost, colon being the position of the last ":" (hosts in brackets are outside
\* the alphabet)
parseHostAt(host, colon) ==
    IF colon # 0 /\ ~validOptionalPort(SubSeq(host, colon, Len(host)))
    THEN UnescapeFail
    ELSE unescape(host, "host")

parseHost(host) == parseHostAt(host, LastIndex(host, ":"))

AuthorityError == [err |-> TRUE, User |-> <<>>, Host |-> <<>>]
NoAuthority == [err |-> FALSE, User |-> <<>>, Host |-> <<>>]

\* parseAuthority once the host h is parsed: User is <<>> (nil) when the authority
\* holds no "@" (at = 0)
parseUserinfo(userinfo, at, h) ==
    IF ~h.ok THEN AuthorityError
    ELSE IF at = 0 THEN [err |-> FALSE, User |-> <<>>, Host |-> h.s]
    ELSE IF ~validUserinfo(userinfo) \/ ~unescape(userinfo, "path").ok THEN AuthorityError
    ELSE [err |-> FALSE, User |-> <<userinfo>>, Host |-> h.s]

parseAuthorityAt(authority, at) ==
    parseUserinfo(SubSeq(authority, 1, at - 1), at,
                  parseHost(SubSeq(authority, at + 1, Len(authority))))

parseAuthority(authority) == parseAuthorityAt(authority, LastIndex(authority, "@"))

ParseError ==
    [err |-> TRUE, Scheme |-> <<>>, Opaque |-> <<>>, User |-> <<>>, Host |-> <<>>,
     Path |-> <<>>, RawQuery |-> <<>>, Fragment |-> <<>>]

\* parse: the URL once authority and path are parsed (url.setPath)
parsePath(scheme, rawq, au, path) ==
    IF au.err \/ ~path.ok THEN ParseError
    ELSE [err |-> FALSE, Scheme |-> scheme, Opaque |-> <<>>, User |-> au.User,
          Host |-> au.Host, Path |-> path.s, RawQuery |-> rawq, Fragment |-> <<>>]

\* parse: "//authority/path", after2 being what follows the "//" and slash the
\* position of its first "/"
parseWithAuthority(scheme, rawq, after2, slash) ==
    parsePath(scheme, rawq,
              parseAuthority(IF slash = 0 THEN after2 ELSE SubSeq(after2, 1, slash - 1)),
              unescape(IF slash = 0 THEN <<>> ELSE SubSeq(after2, slash, Len(after2)), "path"))

\* parse after scheme and query are cut off (viaRequest = false)
parseRest(scheme, rest, rawq) ==
    IF ~HasPrefix(rest, <<"/">>) /\ scheme # <<>>
    THEN [err |-> FALSE, Scheme |-> scheme, Opaque |-> rest, User |-> <<>>,
          Host |-> <<>>, Path |-> <<>>, RawQuery |-> rawq, Fragment |-> <<>>]
    ELSE IF ~HasPrefix(rest, <<"/">>) /\ Contains(Cut(rest, "/").before, ":")
    THEN ParseError
    ELSE IF (scheme # <<>> \/ ~HasPrefix(rest, <<"/", "/", "/">>)) /\ HasPrefix(rest, <<"/", "/">>)
    THEN parseWithAuthority(scheme, rawq, SubSeq(rest, 3, Len(rest)),
                            Index(SubSeq(rest, 3, Len(rest)), "/"))
    ELSE parsePath(scheme, rawq, NoAuthority, unescape(rest, "path"))

\* parse once getScheme has answered sc: a lone trailing "?" forces an empty query
parseScheme(sc) ==
    IF sc.err THEN ParseError
    ELSE IF sc.rest # <<>> /\ sc.rest[Len(sc.rest)] = "?" /\ Count(sc.rest, "?") = 1
    THEN parseRest(ToLower(sc.scheme), SubSeq(sc.rest, 1, Len(sc.rest) - 1), <<>>)
    ELSE parseRest(ToLower(sc.scheme), Cut(sc.rest, "?").before, Cut(sc.rest, "?").after)

\* url.Parse once parse has answered u: setFragment
ParseFragment(u, found, frag) ==
    IF u.err \/ (found /\ ~frag.ok) THEN ParseError
    ELSE [u EXCEPT !.Fragment = frag.s]

ParseCut(fc) ==
    ParseFragment(parseScheme(getScheme(fc.before)), fc.found, unescape(fc.after, "fragment"))

\* url.Parse(rawURL)
Parse(rawURL) == ParseCut(Cut(rawURL, "#"))

\* splitHostPort, colon being the position of the last ":"
splitHostPortAt(hostPort, colon) ==
    IF colon # 0 /\ validOptionalPort(SubSeq(hostPort, colon, Len(hostPort)))
    THEN [host |-> SubSeq(hostPort, 1, colon - 1),
          port |-> SubSeq(hostPort, colon + 1, Len(hostPort))]
    ELSE [host |-> hostPort, port |-> <<>>]

splitHostPort(hostPort) == splitHostPortAt(hostPort, LastIndex(hostPort, ":"))

\* (*URL).Hostname and (*URL).Port
Hostname(u) == splitHostPort(u.Host).host
Port(u) == splitHostPort(u.Host).port

\* url.ParseQuery followed by Values.Get(key): the first value stored under key, ""
\* if none; a pair that does not unescape is skipped
RECURSIVE QueryGet(_, _)

QueryGetUnescaped(rest, k, v, key) ==
    IF ~k.ok \/ ~v.ok \/ k.s # key THEN QueryGet(rest, key) ELSE v.s

QueryGetPair(rest, pair, kv, key) ==
    IF Contains(pair, ";") \/ pair = <<>> THEN QueryGet(rest, key)
    ELSE QueryGetUnescaped(rest, unescape(kv.before, "query"), unescape(kv.after, "query"), key)

QueryGetCut(c, key) == QueryGetPair(c.after, c.before, Cut(c.before, "="), key)

QueryGet(query, key) == IF query = <<>> THEN <<>> ELSE QueryGetCut(Cut(query, "&"), key)

-----------------------------------------------------------------------------
(* package path/filepath, Windows build *)

IsSlash(c) == c \in {"\\", "/"}

\* volumeNameLen: a drive letter ("C:") or a UNC volume (\\server\share)
volumeNameLen(path) ==
    IF Len(path) < 2 THEN 0
    ELSE IF path[2] = ":" /\ IsLetter(path[1]) THEN 2
    ELSE IF Len(path) >= 5 /\ IsSlash(path[1]) /\ IsSlash(path[2])
            /\ ~IsSlash(path[3]) /\ path[3] # "."
            /\ \E k \in 4..(Len(path) - 1) : IsSlash(path[k])
    THEN LET k == CHOOSE k \in 4..(Len(path) - 1) :
                      IsSlash(path[k]) /\ \A j \in 4..(k - 1) : ~IsSlash(path[j])
         IN IF IsSlash(path[k+1]) \/ path[k+1] = "." THEN 0
            ELSE IF \E n \in (k+1)..Len(path) : IsSlash(path[n])
                 THEN (CHOOSE n \in (k+1)..Len(path) :
                          IsSlash(path[n]) /\ \A j \in (k+1)..(n-1) : ~IsSlash(path[j])) - 1
                 ELSE Len(path)
    ELSE 0

\* filepath.IsAbs on Windows
IsAbs(path) ==
    LET l == volumeNameLen(path)
    IN IF l = 0 THEN FALSE
       ELSE IF IsSlash(path[1]) /\ IsSlash(path[2]) THEN TRUE
       ELSE l < Len(path) /\ IsSlash(path[l+1])


-----------------------------------------------------------------------------
(* Strings of the program and the destinations the model draws from *)

sStdout == <<"s","t","d","o","u","t">>
sStderr == <<"s","t","d","e","r","r">>
sFile == <<"f","i","l","e">>
sLocalhost == <<"l","o","c","a","l","h","o","s","t">>
sPath == <<"p","a","t","h">>
sPathParam == <<":","?","p","a","t","h","=">>
RotationPrefix == <<"r","o","t","a","t","i","o","n","-">>

\* stdout
dStdout == <<"s","t","d","o","u","t">>
\* stderr
dStderr == <<"s","t","d","e","r","r">>
\* /v/a
dAbsPath == <<"/","v","/","a">>
\* a.log
dRelPath == <<"a",".","l","o","g">>
\* file:///v/a
dFileURL == <<"f","i","l","e",":","/","/","/","v","/","a">>
\* file://localhost/v
dFileLocalhost == <<"f","i","l","e",":","/","/","l","o","c","a","l","h","o","s","t","/","v">>
\* file://h/v
dFileHost == <<"f","i","l","e",":","/","/","h","/","v">>
\* file:///v?x=1
dFileQuery == <<"f","i","l","e",":","/","/","/","v","?","x","=","1">>
\* /v#f
dFragment == <<"/","v","#","f">>
\* file://u@localhost/v
dFileUser == <<"f","i","l","e",":","/","/","u","@","l","o","c","a","l","h","o","s","t","/","v">>
\* file://localhost:80/v
dFilePort == <<"f","i","l","e",":","/","/","l","o","c","a","l","h","o","s","t",":","8","0","/","v">>
\* https://h/x
dHTTPS == <<"h","t","t","p","s",":","/","/","h","/","x">>
\* C:\a
dDrive == <<"C",":","\\","a">>
\* \\h\s\a#f
dUNCFragment == <<"\\","\\","h","\\","s","\\","a","#","f">>
\* :a
dNoScheme == <<":","a">>
\* /a%20b
dPercent == <<"/","a","%","2","0","b">>
\* /a+b
dPlus == <<"/","a","+","b">>
\* //h/v
dSlashSlashHost == <<"/","/","h","/","v">>
\* ./A_1-b
dDotPath == <<".","/","A","_","1","-","b">>
\* //localhost/v
dSlashSlashLocal == <<"/","/","l","o","c","a","l","h","o","s","t","/","v">>

Dests ==
    {dStdout, dStderr, dAbsPath, dRelPath, dFileURL,
     dFileLocalhost, dFileHost, dFileQuery, dFragment, dFileUser,
     dFilePort, dHTTPS, dDrive, dUNCFragment, dNoScheme,
     dPercent, dPlus, dSlashSlashHost, dSlashSlashLocal, dDotPath}

-----------------------------------------------------------------------------
(* config/configrotate *)

NoWriter == [kind |-> "nil"]

\* mutant: the documented defaults substituted for a zero limit
newLumberjackWriter_Defaults(cfg, filename) ==
    [kind |-> "lumberjack", Filename |-> filename,
     MaxSize |-> IF cfg.MaxMegabytes = 0 THEN 100 ELSE cfg.MaxMegabytes,
     MaxAge |-> cfg.MaxDays,
     MaxBackups |-> IF cfg.MaxBackups = 0 THEN 100 ELSE cfg.MaxBackups,
     LocalTime |-> cfg.LocalTime]

\* cfg.newLumberjackWriter(filename)
newLumberjackWriter(cfg, filename) ==
    [kind |-> "lumberjack", Filename |-> filename, MaxSize |-> cfg.MaxMegabytes,
     MaxAge |-> cfg.MaxDays, MaxBackups |-> cfg.MaxBackups, LocalTime |-> cfg.LocalTime]

\* mutant: O_CREATE left out, a file that does not exist is not opened
OpenFile_NoCreate(filename, files, osErr) ==
    IF osErr # Nil \/ filename \notin files
    THEN [writer |-> NoWriter, err |-> IF osErr # Nil THEN osErr ELSE "ENOENT", fs |-> files,
          ops |-> <<[op |-> "open", name |-> filename]>>]
    ELSE [writer |-> [kind |-> "file", Name |-> filename, append |-> TRUE],
          err |-> Nil, fs |-> files,
          ops |-> <<[op |-> "open", name |-> filename]>>]

\* os.OpenFile(filename, O_WRONLY|O_APPEND|O_CREATE, 0644); osErr is the kernel's
\* answer.  The result carries the filesystem afterwards and the calls made.
OpenFile(filename, files, osErr) ==
    IF osErr # Nil
    THEN [writer |-> NoWriter, err |-> osErr, fs |-> files,
          ops |-> <<[op |-> "open", name |-> filename]>>]
    ELSE [writer |-> [kind |-> "file", Name |-> filename, append |-> TRUE],
          err |-> Nil, fs |-> files \cup {filename},
          ops |-> <<[op |-> "open", name |-> filename]>>]

\* (*Config).NewWriter(filename)
NewWriter(cfg, filename, files, osErr) ==
    IF ~cfg.Enabled
    THEN OpenFile(filename, files, osErr)
    ELSE [writer |-> newLumberjackWriter(cfg, filename), err |-> Nil, fs |-> files,
          ops |-> <<>>]

-----------------------------------------------------------------------------
(* service/telemetry *)

\* rotationSchema + ":?path=" + url.QueryEscape(path)
RotationURL(rotationSchema, path) == rotationSchema \o sPathParam \o QueryEscape(path)

\* the "only clean URLs are allowed" checks, hp being the host split into hostname
\* and port: the error, Nil when the URL is clean
CheckHostPort(u, hp) ==
    IF u.User # <<>> THEN "user and password not allowed with file URLs"
    ELSE IF u.Fragment # <<>> THEN "fragments not allowed with file URLs"
    ELSE IF u.RawQuery # <<>> THEN "query parameters not allowed with file URLs"
    ELSE IF hp.port # <<>> THEN "ports not allowed with file URLs"
    ELSE IF hp.host # <<>> /\ hp.host # sLocalhost
         THEN "file URLs must leave host empty or use localhost"
    ELSE Nil

CheckFileURL(u) == CheckHostPort(u, splitHostPort(u.Host))

\* mutant: the keywords are not told apart from file paths
IsFileURL_KeywordsToo(u) == u.Scheme = <<>> \/ u.Scheme = sFile

\* the condition under which setRotatinURL takes a parsed destination for a file
IsFileURL(u) ==
    (u.Scheme = <<>> \/ u.Scheme = sFile) /\ u.Path # sStdout /\ u.Path # sStderr

\* the loop body once a file URL is checked
RewriteChecked(rotationSchema, u, e) ==
    IF e # Nil THEN [out |-> <<>>, err |-> e]
    ELSE [out |-> RotationURL(rotationSchema, u.Path), err |-> Nil]

\* the loop body once p is parsed to u
RewriteParsed(p, rotationSchema, u) ==
    IF u.err THEN [out |-> <<>>, err |-> "parse"]
    ELSE IF IsFileURL(u) THEN RewriteChecked(rotationSchema, u, CheckFileURL(u))
    ELSE [out |-> p, err |-> Nil]

\* the body of setRotatinURL's loop for the entry p: what is appended, or the error
RewriteEntry(p, rotationSchema) ==
    IF GOOS = "windows" /\ IsAbs(p)
    THEN [out |-> RotationURL(rotationSchema, p), err |-> Nil]
    ELSE RewriteParsed(p, rotationSchema, Parse(p))

\* mutant: the entry is put in front of the slice
AppendEntry_Prepend(res, out) == <<out>> \o res

\* res = append(res, ...)
AppendEntry(res, out) == Append(res, out)

\* the loop of setRotatinURL from entry i on, res being the slice built so far
RECURSIVE setRotatinURLFrom(_, _, _, _)

\* mutant: an entry in error is skipped and the loop goes on
setRotatinURLStep_SkipBad(paths, rotationSchema, i, res, r) ==
    IF r.err # Nil THEN setRotatinURLFrom(paths, rotationSchema, i + 1, res)
    ELSE setRotatinURLFrom(paths, rotationSchema, i + 1, AppendEntry(res, r.out))

setRotatinURLStep(paths, rotationSchema, i, res, r) ==
    IF r.err # Nil THEN [res |-> <<>>, isNil |-> TRUE, err |-> r.err]
    ELSE setRotatinURLFrom(paths, rotationSchema, i + 1, AppendEntry(res, r.out))

setRotatinURLFrom(paths, rotationSchema, i, res) ==
    IF i > Len(paths) THEN [res |-> res, isNil |-> FALSE, err |-> Nil]
    ELSE setRotatinURLStep(paths, rotationSchema, i, res,
                           RewriteEntry(paths[i], rotationSchema))

setRotatinURL(paths, rotationSchema) == setRotatinURLFrom(paths, rotationSchema, 1, <<>>)

NoSink == [kind |-> "nil"]

\* nopSyncSink{writer}, or the error of NewWriter
WrapSink(w) ==
    IF w.err # Nil
    THEN [sink |-> NoSink, err |-> w.err, fs |-> w.fs, ops |-> w.ops]
    ELSE [sink |-> [kind |-> "nopSyncSink", WriteCloser |-> w.writer],
          err |-> Nil, fs |-> w.fs, ops |-> w.ops]

\* mutant: the path of the URL is read, not its "path" parameter
SinkPath_FromURLPath(u) == u.Path

\* the "path" the sink factory reads from the URL it is given
SinkPath(u) == QueryGet(u.RawQuery, sPath)

\* the closure getRotationSinkFactory(cfg) returns, applied to u
RotationSinkFactory(cfg, u, files, osErr) == WrapSink(NewWriter(cfg, SinkPath(u), files, osErr))

\* what the logging frontend does with one destination when zapCfg.Build opens it:
\* the keywords and file destinations are its own, any other scheme is looked up in
\* the sink registry and the registered factory is called
OpenParsed(dest, u, reg, files, osErr) ==
    IF dest = sStdout \/ dest = sStderr
    THEN [sink |-> [kind |-> "frontend", dest |-> dest], err |-> Nil, fs |-> files, ops |-> <<>>]
    ELSE IF ~(GOOS = "windows" /\ IsAbs(dest)) /\ u.err
    THEN [sink |-> NoSink, err |-> "parse", fs |-> files, ops |-> <<>>]
    ELSE IF (GOOS = "windows" /\ IsAbs(dest)) \/ u.Scheme = <<>> \/ u.Scheme = sFile
    THEN IF ~(GOOS = "windows" /\ IsAbs(dest)) /\ CheckFileURL(u) # Nil
         THEN [sink |-> NoSink, err |-> "file URL not clean", fs |-> files, ops |-> <<>>]
         ELSE IF osErr # Nil
         THEN [sink |-> NoSink, err |-> osErr, fs |-> files, ops |-> <<>>]
         ELSE [sink |-> [kind |-> "frontend", dest |-> dest], err |-> Nil, fs |-> files, ops |-> <<>>]
    ELSE IF u.Scheme \in DOMAIN reg
    THEN RotationSinkFactory(reg[u.Scheme], u, files, osErr)
    ELSE [sink |-> NoSink, err |-> "no sink found for scheme", fs |-> files, ops |-> <<>>]

OpenSink(dest, reg, files, osErr) == OpenParsed(dest, Parse(dest), reg, files, osErr)

\* one more destination opened: the errors are combined, the first one is kept here
OpenNext(acc, h) ==
    [sinks |-> Append(acc.sinks, h.sink),
     err |-> IF acc.err # Nil THEN acc.err ELSE h.err,
     fs |-> h.fs, ops |-> acc.ops \o h.ops]

\* the frontend opening the destinations from entry i on
RECURSIVE OpenAllFrom(_, _, _, _, _)
OpenAllFrom(dests, i, reg, osErr, acc) ==
    IF i > Len(dests) THEN acc
    ELSE OpenAllFrom(dests, i + 1, reg, osErr,
                     OpenNext(acc, OpenSink(dests[i], reg, acc.fs, osErr)))

OpenAll(dests, reg, files, osErr) ==
    OpenAllFrom(dests, 1, reg, osErr,
                [sinks |-> <<>>, err |-> Nil, fs |-> files, ops |-> <<>>])

-----------------------------------------------------------------------------
(* Bounds and input sets *)

MaxPaths == 2
MaxLimit == 2
NumUUIDs == 2

\* the concurrent calls of newLogger
Loggers == {"l1", "l2"}

\* uuid.NewString(), shortened to one character
UUIDChars == <<"1", "2", "3", "4", "5", "6", "7", "8", "9">>
UUIDs == {<<UUIDChars[k]>> : k \in 1..NumUUIDs}

OSErrors == {Nil, "EACCES"}

\* every configrotate.Config with limits up to MaxLimit
Policies ==
    [Enabled : BOOLEAN, MaxMegabytes : 0..MaxLimit, MaxDays : 0..MaxLimit,
     MaxBackups : 0..MaxLimit, LocalTime : BOOLEAN]

PolicyOff == [Enabled |-> FALSE, MaxMegabytes |-> 1, MaxDays |-> 1, MaxBackups |-> 1, LocalTime |-> FALSE]
PolicyA == [Enabled |-> TRUE, MaxMegabytes |-> 1, MaxDays |-> 0, MaxBackups |-> 2, LocalTime |-> FALSE]
PolicyB == [Enabled |-> TRUE, MaxMegabytes |-> 2, MaxDays |-> 1, MaxBackups |-> 0, LocalTime |-> TRUE]

\* LogsConfig.Rotation is a pointer: <<>> is nil
Rotations == {<<>>, <<PolicyOff>>, <<PolicyA>>, <<PolicyB>>}

FileNames == {dRelPath, dAbsPath}

\* the sequences over S of length at most n
SeqsUpTo(S, n) == UNION {[1..k -> S] : k \in 0..n}

LogsConfigs ==
    [OutputPaths : {<<dStderr, dAbsPath>>, <<dFileHost>>},
     ErrorOutputPaths : {<<dStderr>>, <<dFileQuery>>},
     Rotation : Rotations]

-----------------------------------------------------------------------------
(* State *)

NoLogger == [built |-> FALSE, out |-> <<>>, errOut |-> <<>>]

IdleLogger ==
    [pc |-> "idle",
     cfg |-> [OutputPaths |-> <<>>, ErrorOutputPaths |-> <<>>, Rotation |-> <<>>],
     rotationSchema |-> <<>>, zapOut |-> <<>>, zapErr |-> <<>>,
     err |-> Nil, stage |-> Nil, logger |-> NoLogger]

IdleCall(paths, schema) ==
    [pc |-> "idle", paths |-> paths, rotationSchema |-> schema,
     res |-> <<>>, isNil |-> FALSE, err |-> Nil,
     k |-> 0, cfg |-> PolicyOff, sink |-> NoSink, sinkErr |-> Nil]

IdleWriter ==
    [pc |-> "idle", cfg |-> PolicyOff, filename |-> <<>>, osErr |-> Nil,
     writer |-> NoWriter, err |-> Nil, fsBefore |-> {}]

\* mutant: the Enabled flag is not looked at
RotationOn_NilCheckOnly(cfg) == cfg.Rotation # <<>>

\* cfg.Rotation != nil && cfg.Rotation.Enabled
RotationOn(cfg) == cfg.Rotation # <<>> /\ cfg.Rotation[1].Enabled

-----------------------------------------------------------------------------
(* newLogger, one action per step between its accesses to the sink registry *)

\* newLogger is entered with cfg: zapCfg is built from it
Start(i, cfg) ==
    /\ inst[i].pc = "idle"
    /\ inst' = [inst EXCEPT ![i] =
                  [@ EXCEPT !.pc = IF RotationOn(cfg) THEN "register" ELSE "build",
                            !.cfg = cfg,
                            !.zapOut = cfg.OutputPaths,
                            !.zapErr = cfg.ErrorOutputPaths]]
    /\ UNCHANGED <<GOOS, registry, call, wr, fs, fsOps>>

\* zap.RegisterSink(scheme, factory): an error when the scheme is registered already,
\* else the factory (its captured cfg) is stored
RegisterSink(schema, cfg) ==
    IF schema \in DOMAIN registry
    THEN [err |-> "sink factory already registered", registry |-> registry]
    ELSE [err |-> Nil, registry |-> registry @@ (schema :> cfg)]

\* mutant: the error of the registration is dropped and the construction goes on
Registered_IgnoreError(i, schema, r) ==
    /\ inst' = [inst EXCEPT ![i] = [@ EXCEPT !.pc = "rewrite", !.rotationSchema = schema]]
    /\ registry' = r.registry

\* newLogger after zap.RegisterSink answered r: if err != nil { return nil, err }
Registered(i, schema, r) ==
    /\ inst' = [inst EXCEPT ![i] =
                  IF r.err # Nil
                  THEN [@ EXCEPT !.pc = "failed", !.rotationSchema = schema, !.err = r.err,
                                 !.stage = "register"]
                  ELSE [@ EXCEPT !.pc = "rewrite", !.rotationSchema = schema]]
    /\ registry' = r.registry

\* rotationSchema := "rotation-" + uuid.NewString(), then the registration of the
\* factory closed over cfg.Rotation
Register(i, uuid) ==
    /\ inst[i].pc = "register"
    /\ Registered(i, RotationPrefix \o uuid,
                  RegisterSink(RotationPrefix \o uuid, inst[i].cfg.Rotation[1]))
    /\ UNCHANGED <<GOOS, call, wr, fs, fsOps>>

\* newLogger after the two setRotatinURL calls answered o and e (e is not called
\* when o is an error)
Rewritten(i, o, e) ==
    inst' = [inst EXCEPT ![i] =
               IF o.err # Nil
               THEN [@ EXCEPT !.pc = "failed", !.zapOut = o.res, !.err = o.err,
                              !.stage = "rewrite"]
               ELSE IF e.err # Nil
               THEN [@ EXCEPT !.pc = "failed", !.zapOut = o.res, !.zapErr = e.res,
                              !.err = e.err, !.stage = "rewrite"]
               ELSE [@ EXCEPT !.pc = "build", !.zapOut = o.res, !.zapErr = e.res]]

\* mutant: the lists are rewritten under the bare prefix, not under the registered scheme
Rewrite_PrefixOnly(i) ==
    /\ inst[i].pc = "rewrite"
    /\ Rewritten(i, setRotatinURL(inst[i].zapOut, RotationPrefix),
                    setRotatinURL(inst[i].zapErr, RotationPrefix))
    /\ UNCHANGED <<GOOS, registry, call, wr, fs, fsOps>>

\* the two setRotatinURL calls, output paths first
Rewrite(i) ==
    /\ inst[i].pc = "rewrite"
    /\ Rewritten(i, setRotatinURL(inst[i].zapOut, inst[i].rotationSchema),
                    setRotatinURL(inst[i].zapErr, inst[i].rotationSchema))
    /\ UNCHANGED <<GOOS, registry, call, wr, fs, fsOps>>

\* newLogger after the frontend opened the error output paths
BuiltErr(i, o, e) ==
    /\ inst' = [inst EXCEPT ![i] =
                  IF e.err # Nil
                  THEN [@ EXCEPT !.pc = "failed", !.err = e.err, !.stage = "build"]
                  ELSE [@ EXCEPT !.pc = "done",
                                 !.logger = [built |-> TRUE, out |-> o.sinks,
                                             errOut |-> e.sinks]]]
    /\ fs' = e.fs
    /\ fsOps' = fsOps \o o.ops \o e.ops

\* newLogger after the frontend opened the output paths
BuiltOut(i, osErr, o) ==
    IF o.err # Nil
    THEN /\ inst' = [inst EXCEPT ![i] =
                       [@ EXCEPT !.pc = "failed", !.err = o.err, !.stage = "build"]]
         /\ fs' = o.fs
         /\ fsOps' = fsOps \o o.ops
    ELSE BuiltErr(i, o, OpenAll(inst[i].zapErr, registry, o.fs, osErr))

\* zapCfg.Build(options...): the frontend opens the output paths, then the error
\* output paths
Build(i, osErr) ==
    /\ inst[i].pc = "build"
    /\ BuiltOut(i, osErr, OpenAll(inst[i].zapOut, registry, fs, osErr))
    /\ UNCHANGED <<GOOS, registry, call, wr>>

Init ==
    /\ GOOS \in {"linux", "windows"}
    /\ registry = <<>>
    /\ inst = [i \in Loggers |-> IdleLogger]
    /\ call = IdleCall(<<>>, <<>>)
    /\ wr = IdleWriter
    /\ fs = {}
    /\ fsOps = <<>>

Next ==
    \/ \E i \in Loggers, cfg \in LogsConfigs : Start(i, cfg)
    \/ \E i \in Loggers, uuid \in UUIDs : Register(i, uuid)
    \/ \E i \in Loggers : Rewrite(i)
    \/ \E i \in Loggers, osErr \in OSErrors : Build(i, osErr)

Spec == Init /\ [][Next]_vars

-----------------------------------------------------------------------------
(* setRotatinURL called on its own, and the registered factory called on an entry *)
(* of its result the way the frontend calls it                                    *)

Schemas == {RotationPrefix \o id : id \in UUIDs}

\* setRotatinURL(paths, rotationSchema) has answered r
Returned(r) ==
    call' = [call EXCEPT !.pc = "returned", !.res = r.res, !.isNil = r.isNil, !.err = r.err]

CallSetRotatinURL ==
    /\ call.pc = "idle"
    /\ Returned(setRotatinURL(call.paths, call.rotationSchema))
    /\ UNCHANGED <<GOOS, registry, inst, wr, fs, fsOps>>

\* the factory getRotationSinkFactory(cfg) has answered r for entry k
Resolved(k, cfg, r) ==
    /\ call' = [call EXCEPT !.pc = "resolved", !.k = k, !.cfg = cfg, !.sink = r.sink,
                            !.sinkErr = r.err]
    /\ fs' = r.fs
    /\ fsOps' = fsOps \o r.ops

\* the frontend parses entry k of the result, finds its scheme to be rotationSchema
\* and calls the factory registered under it
ResolveParsed(k, cfg, osErr, u) ==
    /\ ~u.err
    /\ u.Scheme = call.rotationSchema
    /\ Resolved(k, cfg, RotationSinkFactory(cfg, u, fs, osErr))

ResolveEntry(k, cfg, osErr) ==
    /\ call.pc = "returned"
    /\ call.err = Nil
    /\ k \in 1..Len(call.res)
    /\ ResolveParsed(k, cfg, osErr, Parse(call.res[k]))
    /\ UNCHANGED <<GOOS, registry, inst, wr>>

InitRewrite ==
    /\ GOOS \in {"linux", "windows"}
    /\ registry = <<>>
    /\ inst = [i \in Loggers |-> IdleLogger]
    /\ call \in {IdleCall(paths, schema) : paths \in SeqsUpTo(Dests, MaxPaths), schema \in Schemas}
    /\ wr = IdleWriter
    /\ fs = {}
    /\ fsOps = <<>>

NextRewrite ==
    \/ CallSetRotatinURL
    \/ \E k \in 1..MaxPaths, cfg \in {PolicyA, PolicyB} : ResolveEntry(k, cfg, Nil)

SpecRewrite == InitRewrite /\ [][NextRewrite]_vars

-----------------------------------------------------------------------------
(* Config.NewWriter called on its own *)

\* cfg.NewWriter(filename) has answered r
WriterReturned(cfg, filename, osErr, r) ==
    /\ wr' = [pc |-> "returned", cfg |-> cfg, filename |-> filename, osErr |-> osErr,
              writer |-> r.writer, err |-> r.err, fsBefore |-> fs]
    /\ fs' = r.fs
    /\ fsOps' = fsOps \o r.ops

NewWriterCall(cfg, filename, osErr) ==
    /\ wr.pc = "idle"
    /\ WriterReturned(cfg, filename, osErr, NewWriter(cfg, filename, fs, osErr))
    /\ UNCHANGED <<GOOS, registry, inst, call>>

InitWriter ==
    /\ GOOS \in {"linux", "windows"}
    /\ registry = <<>>
    /\ inst = [i \in Loggers |-> IdleLogger]
    /\ call = IdleCall(<<>>, <<>>)
    /\ wr = IdleWriter
    /\ fs \in SUBSET FileNames
    /\ fsOps = <<>>

NextWriter ==
    \E cfg \in Policies, filename \in FileNames, osErr \in OSErrors :
        NewWriterCall(cfg, filename, osErr)

SpecWriter == InitWriter /\ [][NextWriter]_vars

-----------------------------------------------------------------------------
(* Claims *)

CleanChars == Lower \cup Upper \cup Digits \cup {"/", ".", "-", "_"}

\* a bare filesystem path with no special characters: no scheme, no keyword, only
\* letters, digits, "/", ".", "-" and "_"
PlainPath(p) ==
    /\ p # <<>>
    /\ p # sStdout /\ p # sStderr
    /\ \A k \in 1..Len(p) : p[k] \in CleanChars

\* a destination that parses with empty or "file" scheme, whose path is no keyword,
\* and that carries user-info, a fragment, a query, a port or a non-local hostname
UncleanOf(p, u) ==
    /\ ~u.err
    /\ u.Scheme \in {<<>>, sFile}
    /\ u.Path \notin {sStdout, sStderr}
    /\ \/ u.User # <<>>
       \/ u.Fragment # <<>>
       \/ u.RawQuery # <<>>
       \/ Port(u) # <<>>
       \/ Hostname(u) \notin {<<>>, sLocalhost}

Unclean(p) == UncleanOf(p, Parse(p))

\* a keyword, or a destination that parses with a scheme other than empty or "file"
ForeignOf(p, u) == p \in {sStdout, sStderr} \/ (~u.err /\ u.Scheme \notin {<<>>, sFile})

Foreign(p) == ForeignOf(p, Parse(p))

\* the entry is taken by the Windows absolute-path branch, which does not parse it
WindowsAbs(p) == GOOS = "windows" /\ IsAbs(p)

RotationOff(cfg) == cfg.Rotation = <<>> \/ ~cfg.Rotation[1].Enabled

\* C1 as claimed: a construction that failed in rewriting has produced no logger and
\* has left no entry for its namespace in the sink registry.
C1_NoLeakAfterRewriteFailure ==
    \A i \in Loggers :
        inst[i].stage = "rewrite" =>
            /\ inst[i].logger = NoLogger
            /\ inst[i].rotationSchema \notin DOMAIN registry

\* C2 as claimed: whenever the list holds an unclean file destination, at any position,
\* setRotatinURL returns an error and a nil slice.
C2_UncleanAlwaysFails ==
    (call.pc # "idle" /\ \E k \in 1..Len(call.paths) : Unclean(call.paths[k]))
        => (call.err # Nil /\ call.isNil /\ call.res = <<>>)

\* C2 amended: whenever the list holds an unclean file destination that the Windows
\* absolute-path branch does not take, at any position, setRotatinURL returns an error
\* and a nil slice.
C2_UncleanFailsUnlessWindowsAbs ==
    (call.pc # "idle" /\ \E k \in 1..Len(call.paths) :
                            Unclean(call.paths[k]) /\ ~WindowsAbs(call.paths[k]))
        => (call.err # Nil /\ call.isNil /\ call.res = <<>>)

\* C2 witness: a clean file path followed by an unclean destination, and the call failed
C2_Witness ==
    /\ call.pc = "returned"
    /\ Len(call.paths) = 2
    /\ call.paths[1] = dAbsPath
    /\ Unclean(call.paths[2]) /\ ~WindowsAbs(call.paths[2])
    /\ call.isNil

\* C3 as claimed: in a successful call every keyword and every destination with a
\* scheme other than empty or "file" comes out unchanged, at its position.
C3_ForeignUnchanged ==
    (call.pc # "idle" /\ call.err = Nil) =>
        \A k \in 1..Len(call.paths) :
            Foreign(call.paths[k]) => (k <= Len(call.res) /\ call.res[k] = call.paths[k])

\* C3 amended: in a successful call every keyword, and every destination with a scheme
\* other than empty or "file" that the Windows absolute-path branch does not take,
\* comes out unchanged, at its position.
C3_ForeignUnchangedUnlessWindowsAbs ==
    (call.pc # "idle" /\ call.err = Nil) =>
        \A k \in 1..Len(call.paths) :
            (Foreign(call.paths[k]) /\ ~WindowsAbs(call.paths[k]))
                => (k <= Len(call.res) /\ call.res[k] = call.paths[k])

\* C3 witness: a rewritten path followed by an https destination that came out unchanged
C3_Witness ==
    /\ call.pc = "returned"
    /\ call.err = Nil
    /\ Len(call.paths) = 2
    /\ call.res[1] # call.paths[1]
    /\ call.paths[2] = dHTTPS
    /\ call.res[2] = dHTTPS

\* C4 as claimed: every plain bare path p is rewritten to
\* rotationSchema ":?path=" QueryEscape(p) (a list of plain paths never fails), and the
\* factory called on that URL hands exactly p to NewWriter.
C4_RoundTrip ==
    /\ (call.pc # "idle" /\ \A k \in 1..Len(call.paths) : PlainPath(call.paths[k]))
           => call.err = Nil
    /\ (call.pc # "idle" /\ call.err = Nil) =>
           \A k \in 1..Len(call.paths) :
               PlainPath(call.paths[k]) =>
                   call.res[k] = call.rotationSchema \o sPathParam \o QueryEscape(call.paths[k])
    /\ (call.pc = "resolved" /\ PlainPath(call.paths[call.k])) =>
           /\ call.sinkErr = Nil
           /\ call.sink.kind = "nopSyncSink"
           /\ call.sink.WriteCloser.Filename = call.paths[call.k]

\* a plain bare path that does not begin with "//"
BarePath(p) == PlainPath(p) /\ ~HasPrefix(p, <<"/", "/">>)

\* C4 amended: the same for every plain bare path that does not begin with "//" (a
\* destination that does parses as a URL with a host: it is rejected, or loses the
\* host).
C4_RoundTripNoAuthority ==
    /\ (call.pc # "idle" /\ \A k \in 1..Len(call.paths) : BarePath(call.paths[k]))
           => call.err = Nil
    /\ (call.pc # "idle" /\ call.err = Nil) =>
           \A k \in 1..Len(call.paths) :
               BarePath(call.paths[k]) =>
                   call.res[k] = call.rotationSchema \o sPathParam \o QueryEscape(call.paths[k])
    /\ (call.pc = "resolved" /\ BarePath(call.paths[call.k])) =>
           /\ call.sinkErr = Nil
           /\ call.sink.kind = "nopSyncSink"
           /\ call.sink.WriteCloser.Filename = call.paths[call.k]

\* C4 witness: the factory was called on the rewritten form of /v/a
C4_Witness ==
    /\ call.pc = "resolved"
    /\ call.paths[call.k] = dAbsPath
    /\ call.res[call.k] # dAbsPath
    /\ call.sink.kind = "nopSyncSink"

\* C5: a successful call returns as many entries as it was given, in order: entry k
\* is what setRotatinURL returns for the one-entry list of paths[k], and is either
\* paths[k] itself or a URL of the rotation scheme.
C5_OrderPreserved ==
    (call.pc # "idle" /\ call.err = Nil) =>
        /\ ~call.isNil
        /\ Len(call.res) = Len(call.paths)
        /\ \A k \in 1..Len(call.paths) :
              /\ setRotatinURL(<<call.paths[k]>>, call.rotationSchema).err = Nil
              /\ call.res[k] = setRotatinURL(<<call.paths[k]>>, call.rotationSchema).res[1]
              /\ \/ call.res[k] = call.paths[k]
                 \/ HasPrefix(call.res[k], call.rotationSchema \o sPathParam)

\* C5 witness: a keyword and a path, two different entries, one unchanged and one
\* rewritten
C5_Witness ==
    /\ call.pc = "returned"
    /\ call.err = Nil
    /\ call.paths = <<dStderr, dAbsPath>>
    /\ call.res[1] = dStderr
    /\ call.res[2] # dAbsPath

\* C6: the sink registry only grows and no entry is ever replaced; a registration
\* under a scheme that is registered already fails the construction; and a
\* construction that has registered finds its own policy under its scheme.
C6_RegistryInsertOnly ==
    [][/\ \A n \in DOMAIN registry : n \in DOMAIN registry' /\ registry'[n] = registry[n]
       /\ \A i \in Loggers :
             (inst[i].pc = "register" /\ inst'[i].pc # "register"
                 /\ inst'[i].rotationSchema \in DOMAIN registry)
                 => (inst'[i].pc = "failed" /\ inst'[i].stage = "register"
                     /\ inst'[i].logger = NoLogger)
       /\ \A i \in Loggers :
             (inst[i].pc = "register" /\ inst'[i].pc = "rewrite")
                 => (/\ inst'[i].rotationSchema \in DOMAIN registry'
                     /\ registry'[inst'[i].rotationSchema] = inst'[i].cfg.Rotation[1])
      ]_vars

\* C6 witness: two constructions drew the same scheme with different policies; the
\* second failed at registration
C6_Witness ==
    \E i, j \in Loggers :
        /\ i # j
        /\ inst[i].stage = "register"
        /\ inst[j].pc \in {"rewrite", "build", "done"}
        /\ inst[j].rotationSchema = inst[i].rotationSchema
        /\ inst[i].cfg.Rotation # inst[j].cfg.Rotation

\* the sinks the frontend built for the rewritten entries of a list are rotating
\* writers configured with the limits of pol
OwnSinks(configured, rewritten, sinks, pol) ==
    /\ Len(sinks) = Len(configured)
    /\ \A k \in 1..Len(sinks) :
          rewritten[k] # configured[k] =>
              /\ sinks[k].kind = "nopSyncSink"
              /\ sinks[k].WriteCloser.kind = "lumberjack"
              /\ sinks[k].WriteCloser.MaxSize = pol.MaxMegabytes
              /\ sinks[k].WriteCloser.MaxAge = pol.MaxDays
              /\ sinks[k].WriteCloser.MaxBackups = pol.MaxBackups
              /\ sinks[k].WriteCloser.LocalTime = pol.LocalTime

\* C9: from the moment a construction with rotation enabled reaches the frontend,
\* its scheme is in the registry and maps to its own policy; every rewritten entry
\* carries that scheme; and the sinks of the built logger are configured with its
\* own policy.
C9_RegisteredBeforeResolved ==
    \A i \in Loggers :
        (~RotationOff(inst[i].cfg) /\ (inst[i].pc \in {"build", "done"} \/ inst[i].stage = "build")) =>
            /\ inst[i].rotationSchema \in DOMAIN registry
            /\ registry[inst[i].rotationSchema] = inst[i].cfg.Rotation[1]
            /\ \A k \in 1..Len(inst[i].zapOut) :
                  inst[i].zapOut[k] # inst[i].cfg.OutputPaths[k]
                      => Parse(inst[i].zapOut[k]).Scheme = inst[i].rotationSchema
            /\ \A k \in 1..Len(inst[i].zapErr) :
                  inst[i].zapErr[k] # inst[i].cfg.ErrorOutputPaths[k]
                      => Parse(inst[i].zapErr[k]).Scheme = inst[i].rotationSchema
            /\ inst[i].pc = "done" =>
                  /\ OwnSinks(inst[i].cfg.OutputPaths, inst[i].zapOut, inst[i].logger.out,
                              inst[i].cfg.Rotation[1])
                  /\ OwnSinks(inst[i].cfg.ErrorOutputPaths, inst[i].zapErr,
                              inst[i].logger.errOut, inst[i].cfg.Rotation[1])

\* C9 witness: two constructions with different policies are both built
C9_Witness ==
    \E i, j \in Loggers :
        /\ inst[i].pc = "done" /\ inst[j].pc = "done"
        /\ inst[i].cfg.Rotation = <<PolicyA>>
        /\ inst[j].cfg.Rotation = <<PolicyB>>
        /\ inst[i].logger.out[2].kind = "nopSyncSink"
        /\ inst[j].logger.out[2].kind = "nopSyncSink"

\* C10: a step of a construction whose rotation policy is nil or disabled leaves the
\* registry alone, and the lists it hands to the frontend are the configured ones; it
\* fails at the frontend or not at all.
C10_RotationOffPassThrough ==
    [][\A i \in Loggers :
          (inst'[i] # inst[i] /\ RotationOff(inst'[i].cfg)) =>
              /\ registry' = registry
              /\ inst'[i].zapOut = inst'[i].cfg.OutputPaths
              /\ inst'[i].zapErr = inst'[i].cfg.ErrorOutputPaths
              /\ inst'[i].rotationSchema = <<>>
              /\ inst'[i].stage \in {Nil, "build"}
              /\ inst'[i].pc \in {"build", "done", "failed"}
      ]_vars

\* C10 witness: a disabled policy and a destination that rewriting would reject have
\* reached the frontend
C10_Witness ==
    \E i \in Loggers :
        /\ inst[i].cfg.Rotation = <<PolicyOff>>
        /\ inst[i].pc = "build"
        /\ inst[i].zapOut = <<dFileHost>>
        /\ registry = <<>>

\* C7: with Enabled, NewWriter returns no error and a rotating writer holding exactly
\* the filename and the four limits of the policy, and touches no file.
C7_EnabledWriter ==
    (wr.pc = "returned" /\ wr.cfg.Enabled) =>
        /\ wr.err = Nil
        /\ wr.writer = [kind |-> "lumberjack", Filename |-> wr.filename,
                        MaxSize |-> wr.cfg.MaxMegabytes, MaxAge |-> wr.cfg.MaxDays,
                        MaxBackups |-> wr.cfg.MaxBackups, LocalTime |-> wr.cfg.LocalTime]
        /\ fs = wr.fsBefore
        /\ fsOps = <<>>

\* C7 witness: an enabled policy with a zero size limit, a file that does not exist and
\* a filesystem that would refuse the open
C7_Witness ==
    /\ wr.pc = "returned"
    /\ wr.cfg.Enabled
    /\ wr.cfg.MaxMegabytes = 0
    /\ wr.osErr # Nil
    /\ wr.filename \notin fs

\* C8: without Enabled, NewWriter opens the file for appending, creating it; it
\* returns a plain file of that name, or the error of the open and no writer; the
\* limits of the policy do not show in the result.
C8_DisabledWriter ==
    (wr.pc = "returned" /\ ~wr.cfg.Enabled) =>
        /\ wr.err = wr.osErr
        /\ fsOps = <<[op |-> "open", name |-> wr.filename]>>
        /\ IF wr.err = Nil
           THEN /\ wr.writer = [kind |-> "file", Name |-> wr.filename, append |-> TRUE]
                /\ fs = wr.fsBefore \cup {wr.filename}
           ELSE /\ wr.writer = NoWriter
                /\ fs = wr.fsBefore

\* C8 witness: a disabled policy with limits set, and the file was created
C8_Witness ==
    /\ wr.pc = "returned"
    /\ ~wr.cfg.Enabled
    /\ wr.cfg.MaxMegabytes > 0
    /\ wr.filename \notin wr.fsBefore
    /\ wr.filename \in fs
    /\ wr.writer.kind = "file"

=============================================================================
